---- MODULE Spec2Model ----
(***************************************************************************)
(* Model of server/compare-audio.py: the audio comparison pipeline         *)
(* (alignment, per-file statistics, correlations, similarity score, issue  *)
(* rules) and the command line's exit status.                              *)
(*                                                                         *)
(* Number representation.  A sample buffer is a sequence of integers       *)
(* together with a decimal exponent e: the sample value is s * 10^-e of    *)
(* full scale.  e = 0 is the ordinary regime (every 1e-10 floor of the     *)
(* code acts only on exact zero), e = 5 is the very quiet regime in which  *)
(* the code's 1e-10 floors on powers and correlation denominators bite.    *)
(* dB values are carried in thousandths of a dB, correlation coefficients  *)
(* in thousandths (truncated), times in ms, frequencies in Hz (truncated), *)
(* and the similarity score as an exact fraction num/den.                  *)
(***************************************************************************)
EXTENDS Integers, Sequences, FiniteSets, TLC

\* Longest sample buffer of a file.
MaxLen == 3

\* Sample values of a file, in units of 10^-e of full scale.
SampleValues == {-2, 0, 1}

\* Decimal exponents of the sample unit.
InputExps == {0, 5}

\* Linear values of the silence threshold 10^(silence_threshold_db/20), in
\* the sample unit: a sample of magnitude 1 is at the threshold, not above it.
ThresholdLevels == {1}

\* Sample rates of the files (Hz).
SampleRates == {200}

Buffers == UNION {[1..n -> SampleValues] : n \in 0..MaxLen}

FileStates == {"ok", "missing", "unreadable"}

(***************************************************************************)
(* Arithmetic helpers (numpy / Python builtins).                           *)
(***************************************************************************)
Abs(x) == IF x < 0 THEN -x ELSE x

Min2(a, b) == IF a <= b THEN a ELSE b

Max2(a, b) == IF a >= b THEN a ELSE b

Pow10(k) == 10 ^ k

\* a * 10^k < x, for naturals a, x and k >= 0, without forming a * 10^k.
RECURSIVE LtPow10(_, _, _)
LtPow10(a, x, k) ==
    IF k = 0 \/ x <= 1 THEN a < x ELSE LtPow10(a, (x + 9) \div 10, k - 1)

\* floor(sqrt(n)) for a natural n (Newton's iteration from above).
RECURSIVE IsqrtFrom(_, _)
IsqrtFrom(n, x) ==
    LET y == (x + n \div x) \div 2
    IN  IF y >= x THEN x ELSE IsqrtFrom(n, y)

Isqrt(n) == IF n = 0 THEN 0 ELSE IsqrtFrom(n, n)

\* np.abs
NpAbs(a) == [i \in 1..Len(a) |-> Abs(a[i])]

\* np.sum
RECURSIVE NpSum(_)
NpSum(a) == IF Len(a) = 0 THEN 0 ELSE a[1] + NpSum(Tail(a))

\* np.sum(a**2)
SumSq(a) == NpSum([i \in 1..Len(a) |-> a[i] * a[i]])

\* np.max raises ValueError on a zero-size array.
NpMaxRaises(a) == Len(a) = 0

\* np.max of a non-empty array.
NpMax(a) == CHOOSE m \in {a[i] : i \in 1..Len(a)} : \A j \in 1..Len(a) : a[j] <= m

\* Python slices a[k:] and a[:k] for k >= 0.
SliceFrom(a, k) == SubSeq(a, Min2(k, Len(a)) + 1, Len(a))

SliceTo(a, k) == SubSeq(a, 1, Min2(k, Len(a)))

\* a[lo:hi] for 0 <= lo <= hi.
Slice(a, lo, hi) == SliceTo(SliceFrom(a, lo), hi - lo)

(***************************************************************************)
(* Resampling.                                                             *)
(***************************************************************************)
\* int(len(data) / sr_orig * sr_target): the float product truncated.  For
\* the lengths and rates drawn here the float product truncates to the floor
\* of the exact quotient.
ResampledLength(n, sr_orig, sr_target) == (n * sr_target) \div sr_orig

\* The returned array and its length: the input itself when the rates are
\* equal, else scipy's signal.resample(data, new_length), kept as the call.
resample_if_needed(data, sr_orig, sr_target) ==
    IF sr_orig = sr_target
    THEN [array |-> data, length |-> Len(data)]
    ELSE LET new_length == ResampledLength(Len(data), sr_orig, sr_target)
         IN  [array |-> [fn |-> "signal.resample", x |-> data, num |-> new_length],
              length |-> new_length]

(***************************************************************************)
(* Alignment.                                                              *)
(***************************************************************************)
\* np.where(np.abs(data) > threshold_linear)[0]
AboveThreshold(data, threshold_linear) ==
    {i \in 1..Len(data) : Abs(data[i]) > threshold_linear}

SetMin(S) == CHOOSE m \in S : \A x \in S : m <= x

\* A plausible slip: the samples are compared without np.abs.
find_first_transient_signed(data, threshold_linear) ==
    LET above == {i \in 1..Len(data) : data[i] > threshold_linear}
    IN  IF above # {} THEN SetMin(above) - 1 ELSE 0

\* 0-based index of the first sample above the threshold, 0 if none.
find_first_transient(data, threshold_linear) ==
    LET above == AboveThreshold(data, threshold_linear)
    IN  IF above # {} THEN SetMin(above) - 1 ELSE 0

\* A plausible slip: the peak of the whole buffer, however long.
FirstSecondPeak_whole(x, sample_rate) == NpMax(NpAbs(x))

\* np.max(np.abs(x[:sample_rate])) if len(x) > sample_rate else np.max(np.abs(x))
FirstSecondPeak(x, sample_rate) ==
    IF Len(x) > sample_rate THEN NpMax(NpAbs(SliceTo(x, sample_rate)))
    ELSE NpMax(NpAbs(x))

find_alignment_offset_by_transient_raises(ref, target) ==
    NpMaxRaises(ref) \/ NpMaxRaises(target)

\* A plausible slip: the offset with the operands swapped.
find_alignment_offset_by_transient_swapped(ref, target, sample_rate, threshold_linear) ==
    [offset |-> find_first_transient(ref, threshold_linear)
                  - find_first_transient(target, threshold_linear),
     confidence |->
        (1000 * Min2(Min2(FirstSecondPeak(ref, sample_rate),
                          FirstSecondPeak(target, sample_rate)),
                     10 * threshold_linear)) \div (10 * threshold_linear)]

\* (offset_samples, confidence); confidence in thousandths.
find_alignment_offset_by_transient(ref, target, sample_rate, threshold_linear) ==
    [offset |-> find_first_transient(target, threshold_linear)
                  - find_first_transient(ref, threshold_linear),
     confidence |->
        (1000 * Min2(Min2(FirstSecondPeak(ref, sample_rate),
                          FirstSecondPeak(target, sample_rate)),
                     10 * threshold_linear)) \div (10 * threshold_linear)]

\* signal.correlate(x, y, mode="full") at one lag, for len(x) = len(y):
\* the sum over l of x[l] * y[l - lag].
CorrelateAt(x, y, lag) ==
    NpSum([l \in 1..Len(x) |->
              IF l - lag >= 1 /\ l - lag <= Len(y) THEN x[l] * y[l - lag] ELSE 0])

\* The default max_offset_ms of find_alignment_offset.
DefaultMaxOffsetMs == 500

\* np.argmax raises ValueError on an empty search region: when a segment is
\* empty, and when the window is 0 samples wide.
find_alignment_offset_raises(ref, target, max_offset_ms, sample_rate) ==
    \/ Min2(Min2(Len(ref), Len(target)), sample_rate * 2) = 0
    \/ (max_offset_ms * sample_rate) \div 1000 = 0

\* (offset_samples, correlation_coefficient) by cross-correlation; the
\* coefficient in thousandths, truncated.
find_alignment_offset(ref, target, max_offset_ms, sample_rate) ==
    LET max_offset_samples == (max_offset_ms * sample_rate) \div 1000
        max_len == Min2(Min2(Len(ref), Len(target)), sample_rate * 2)
        ref_seg == SliceTo(ref, max_len)
        target_seg == SliceTo(target, max_len)
        \* correlation[k], 0-based k, holds lag k - (max_len - 1)
        correlation == [k \in 0..(2 * max_len - 2) |->
                           CorrelateAt(ref_seg, target_seg, k - (max_len - 1))]
        center == Len(target_seg) - 1
        search_start == Max2(0, center - max_offset_samples)
        search_end == Min2(2 * max_len - 1, center + max_offset_samples)
        region == search_start..(search_end - 1)
        top == SetMin({-Abs(correlation[k]) : k \in region})
        peak == SetMin({k \in region : -Abs(correlation[k]) = top})
        peak_corr == correlation[peak]
        norm_sq == SumSq(ref_seg) * SumSq(target_seg)
    IN  [offset |-> peak - center,
         corr_coef |-> IF norm_sq > 0
                       THEN (IF peak_corr < 0 THEN -1 ELSE 1)
                              * Isqrt((1000000 * peak_corr * peak_corr) \div norm_sq)
                       ELSE 0]

\* align_audio(ref, target, offset): trimmed arrays of equal length.
align_audio(ref, target, offset) ==
    LET t == IF offset > 0 THEN SliceFrom(target, offset) ELSE target
        r == IF offset < 0 THEN SliceFrom(ref, -offset) ELSE ref
        min_len == Min2(Len(r), Len(t))
    IN  [ref |-> SliceTo(r, min_len), target |-> SliceTo(t, min_len)]

\* A plausible slip: the target's view is not cut to the common length.
AlignBlock_untrimmed(data1, data2, align, trim, sample_rate, threshold_linear) ==
    IF align
    THEN LET found == find_alignment_offset_by_transient(data1, data2, sample_rate,
                                                         threshold_linear)
             offset == found.offset
             a1 == IF offset < 0 THEN SliceFrom(data1, -offset) ELSE data1
             a2 == IF offset > 0 THEN SliceFrom(data2, offset) ELSE data2
             min_len == Min2(Len(a1), Len(a2))
             target_len == Len(data1)
             t1 == SliceTo(a1, min_len)
             t2 == a2
         IN  [offset |-> offset,
              offset_ms |-> (offset * 1000) \div sample_rate,
              align_corr |-> found.confidence,
              head1 |-> IF offset < 0 THEN -offset ELSE 0,
              head2 |-> IF offset > 0 THEN offset ELSE 0,
              data1_aligned |-> IF trim THEN SliceTo(t1, target_len) ELSE t1,
              data2_aligned |-> IF trim THEN SliceTo(t2, target_len) ELSE t2,
              data2 |-> IF trim /\ offset > 0
                        THEN Slice(data2, offset, offset + target_len)
                        ELSE data2]
    ELSE LET min_len == Min2(Len(data1), Len(data2))
         IN  [offset |-> 0, offset_ms |-> 0, align_corr |-> 0,
              head1 |-> 0, head2 |-> 0,
              data1_aligned |-> SliceTo(data1, min_len),
              data2_aligned |-> data2,
              data2 |-> data2]

\* compare_audio, the alignment block: the offset, the two aligned views, the
\* number of samples skipped at each head, and data2 as the per-file
\* statistics will see it.
AlignBlock(data1, data2, align, trim, sample_rate, threshold_linear) ==
    IF align
    THEN LET found == find_alignment_offset_by_transient(data1, data2, sample_rate,
                                                         threshold_linear)
             offset == found.offset
             a1 == IF offset < 0 THEN SliceFrom(data1, -offset) ELSE data1
             a2 == IF offset > 0 THEN SliceFrom(data2, offset) ELSE data2
             min_len == Min2(Len(a1), Len(a2))
             target_len == Len(data1)
             t1 == SliceTo(a1, min_len)
             t2 == SliceTo(a2, min_len)
         IN  [offset |-> offset,
              offset_ms |-> (offset * 1000) \div sample_rate,
              align_corr |-> found.confidence,
              head1 |-> IF offset < 0 THEN -offset ELSE 0,
              head2 |-> IF offset > 0 THEN offset ELSE 0,
              data1_aligned |-> IF trim THEN SliceTo(t1, target_len) ELSE t1,
              data2_aligned |-> IF trim THEN SliceTo(t2, target_len) ELSE t2,
              data2 |-> IF trim /\ offset > 0
                        THEN Slice(data2, offset, offset + target_len)
                        ELSE data2]
    ELSE LET min_len == Min2(Len(data1), Len(data2))
         IN  [offset |-> 0, offset_ms |-> 0, align_corr |-> 0,
              head1 |-> 0, head2 |-> 0,
              data1_aligned |-> SliceTo(data1, min_len),
              data2_aligned |-> SliceTo(data2, min_len),
              data2 |-> data2]

AlignBlockRaises(data1, data2, align) ==
    align /\ find_alignment_offset_by_transient_raises(data1, data2)

(***************************************************************************)
(* Decibels.  Log10Table[k] = 10*log10(k) in thousandths of a dB.          *)
(***************************************************************************)
Log10Table ==
    <<
       0, 3010, 4771, 6021, 6990, 7782, 8451, 9031, 9542, 10000, 10414,
       10792, 11139, 11461, 11761, 12041, 12304, 12553, 12788, 13010,
       13222, 13424, 13617, 13802, 13979, 14150, 14314, 14472, 14624,
       14771, 14914, 15051, 15185, 15315, 15441, 15563, 15682, 15798,
       15911, 16021, 16128, 16232, 16335, 16435, 16532, 16628, 16721,
       16812, 16902, 16990, 17076, 17160, 17243, 17324, 17404, 17482,
       17559, 17634, 17709, 17782, 17853, 17924, 17993, 18062, 18129,
       18195, 18261, 18325, 18388, 18451, 18513, 18573, 18633, 18692,
       18751, 18808, 18865, 18921, 18976, 19031, 19085, 19138, 19191,
       19243, 19294, 19345, 19395, 19445, 19494, 19542, 19590, 19638,
       19685, 19731, 19777, 19823, 19868, 19912, 19956, 20000
    >>

\* 10*log10(k), thousandths of a dB, for k in 1..Len(Log10Table).
TenLog10(k) == Log10Table[k]

\* The code's floor: 20*log10(max(value, 1e-10)) can never be below this.
FloorDb == -200000

\* A plausible slip: no epsilon floor, so that log10(0) = -inf (carried as a
\* level far below the floor).
AmplitudeDb_nofloor(v, e) ==
    IF v = 0 THEN 10 * FloorDb ELSE 2 * TenLog10(v) - 20000 * e

\* 20*log10(max(v * 10^-e, 1e-10)) for a natural v.
AmplitudeDb(v, e) ==
    IF v = 0 \/ LtPow10(v, 1, 10 - e)
    THEN FloorDb
    ELSE 2 * TenLog10(v) - 20000 * e

\* 20*log10(max(sqrt(sumsq / n) * 10^-e, 1e-10)) for naturals sumsq, n > 0.
RmsDb(sumsq, n, e) ==
    IF sumsq = 0 \/ LtPow10(sumsq, n, 20 - 2 * e)
    THEN FloorDb
    ELSE TenLog10(sumsq) - TenLog10(n) - 20000 * e

(***************************************************************************)
(* AmplitudeStats.                                                         *)
(***************************************************************************)
\* Ascending sort of a sequence of integers.
RECURSIVE SortAsc(_)
SortAsc(a) ==
    IF Len(a) = 0 THEN <<>>
    ELSE LET m == CHOOSE i \in 1..Len(a) : \A j \in 1..Len(a) : a[i] <= a[j]
         IN  <<a[m]>> \o SortAsc([i \in 1..(Len(a) - 1) |->
                                     IF i < m THEN a[i] ELSE a[i + 1]])

\* The sums of squares of the 100 ms windows whose RMS is above the silence
\* threshold: sqrt(sumsq / window_size) > threshold_linear.
RECURSIVE LoudWindows(_, _, _, _)
LoudWindows(data, window_size, threshold_linear, i) ==
    IF i >= Len(data) \div window_size THEN <<>>
    ELSE LET w_sumsq == SumSq(Slice(data, i * window_size, (i + 1) * window_size))
             rest == LoudWindows(data, window_size, threshold_linear, i + 1)
         IN  IF w_sumsq > threshold_linear * threshold_linear * window_size
             THEN <<w_sumsq>> \o rest
             ELSE rest

\* Dynamic range in thousandths of a dB.  np.percentile's interpolation is
\* taken at the lower neighbouring rank.
DynamicRange(data, sample_rate, threshold_linear) ==
    LET window_size == sample_rate \div 10
    IN  IF Len(data) >= window_size
        THEN LET window_rms == SortAsc(LoudWindows(data, window_size,
                                                   threshold_linear, 0))
                 m == Len(window_rms)
             IN  IF m >= 2
                 THEN TenLog10(window_rms[1 + (90 * (m - 1)) \div 100])
                        - TenLog10(window_rms[1 + (10 * (m - 1)) \div 100])
                 ELSE 0
        ELSE 0

calculate_amplitude_stats_raises(data) == NpMaxRaises(data)

\* AmplitudeStats of a non-empty buffer.  rms_linear is carried as its square
\* sumsq/n (sample units squared), dc_offset as the fraction num/den of
\* full scale.
calculate_amplitude_stats(data, sample_rate, threshold_linear, e) ==
    LET peak == NpMax(NpAbs(data))
        sumsq == SumSq(data)
    IN  [peak_linear |-> peak,
         peak_db |-> AmplitudeDb(peak, e),
         rms_sq |-> [num |-> sumsq, den |-> Len(data)],
         rms_db |-> RmsDb(sumsq, Len(data), e),
         crest_factor_db |-> AmplitudeDb(peak, e) - RmsDb(sumsq, Len(data), e),
         dynamic_range_db |-> DynamicRange(data, sample_rate, threshold_linear),
         dc_offset |-> [num |-> NpSum(data), den |-> Len(data) * Pow10(e)]]

(***************************************************************************)
(* Spectra.  The discrete Fourier transform is exact in integers for       *)
(* segments of 1..4 samples: 2*cos and 2*sin of the twiddle angles are     *)
(* integers, up to a factor sqrt(3) on the sines of a 3-point transform.   *)
(***************************************************************************)
\* 2*cos(2*pi*j/N)
Cos2(N, j) ==
    IF N = 3 THEN <<2, -1, -1>>[(j % 3) + 1]
    ELSE <<2, 0, -2, 0>>[((j * (4 \div N)) % 4) + 1]

\* 2*sin(2*pi*j/N) / sqrt(SinRad(N))
Sin2(N, j) ==
    IF N = 3 THEN <<0, 1, -1>>[(j % 3) + 1]
    ELSE <<0, 2, 0, -2>>[((j * (4 \div N)) % 4) + 1]

SinRad(N) == IF N = 3 THEN 3 ELSE 1

\* 4 * |rfft(y)[k]|^2
PowerBin4(y, k) ==
    LET N == Len(y)
        re == NpSum([n \in 1..N |-> y[n] * Cos2(N, k * (n - 1))])
        im == NpSum([n \in 1..N |-> y[n] * Sin2(N, k * (n - 1))])
    IN  re * re + SinRad(N) * im * im

\* 4 * np.hanning(N)
Hann4(N) ==
    CASE N = 0 -> <<>>
      [] N = 1 -> <<4>>
      [] N = 2 -> <<0, 0>>
      [] N = 3 -> <<0, 4, 0>>
      [] N = 4 -> <<0, 3, 3, 0>>

\* The centred segment of at most 2 seconds.
SpectralSegment(data, sample_rate) ==
    LET segment_len == Min2(Len(data), sample_rate * 2)
        start == (Len(data) - segment_len) \div 2
    IN  Slice(data, start, start + segment_len)

\* 64 * (power spectrum of the Hann-windowed segment without its DC bin):
\* entry k is bin k, k = 1..N div 2.
Power64(data, sample_rate) ==
    LET segment == SpectralSegment(data, sample_rate)
        N == Len(segment)
        windowed4 == [n \in 1..N |-> segment[n] * Hann4(N)[n]]
    IN  [k \in 1..(N \div 2) |-> PowerBin4(windowed4, k)]

\* total_power < 1e-10, given 64 * total_power in squared sample units.
SpectralSilent(total_power, e) == LtPow10(total_power, 64, 10 - 2 * e)

\* scipy.signal.find_peaks without conditions: the middle of every plateau
\* that is strictly higher than both its neighbours (1-based indices).
LocalMaxima(x) ==
    {(l + r) \div 2 :
        <<l, r>> \in {p \in (2..(Len(x) - 1)) \X (2..(Len(x) - 1)) :
                        /\ p[1] <= p[2]
                        /\ \A i \in p[1]..p[2] : x[i] = x[p[1]]
                        /\ x[p[1] - 1] < x[p[1]]
                        /\ x[p[2] + 1] < x[p[2]]}}

\* The elements of a set of indices as an ascending sequence.
RECURSIVE SetToSeq(_)
SetToSeq(S) ==
    IF S = {} THEN <<>> ELSE <<SetMin(S)>> \o SetToSeq(S \ {SetMin(S)})

\* np.argsort(mags)[::-1]: indices by descending magnitude.
RECURSIVE ArgsortDesc(_, _)
ArgsortDesc(mags, left) ==
    IF left = {} THEN <<>>
    ELSE LET top == CHOOSE i \in left :
                       \A j \in left : mags[j] < mags[i] \/ (mags[j] = mags[i] /\ j <= i)
         IN  <<top>> \o ArgsortDesc(mags, left \ {top})

\* Spectral flatness in thousandths, for spectra of one or two bins; the
\* 1e-10 added to the magnitudes is taken to make a spectrum with a zero
\* bin flat to 0.
Flatness(power) ==
    IF Len(power) = 1 THEN 1000
    ELSE IF power[1] = 0 \/ power[2] = 0 THEN 0
    ELSE LET g == Isqrt(power[1] * power[2])
         IN  Isqrt((4 * g * 1000000) \div (power[1] + power[2] + 2 * g))

ZeroSpectralStats ==
    [centroid_hz |-> 0, bandwidth_hz |-> 0, rolloff_hz |-> 0, flatness |-> 0,
     dominant_freqs |-> <<>>]

\* scipy's rfft raises ValueError on zero data points.
calculate_spectral_stats_raises(data) == Len(data) = 0

\* SpectralStats of a non-empty buffer.
calculate_spectral_stats(data, sample_rate, e) ==
    LET power == Power64(data, sample_rate)
        N == Min2(Len(data), sample_rate * 2)
        M == Len(power)
        total_power == NpSum(power)
        s1 == NpSum([k \in 1..M |-> k * power[k]])
        s2 == NpSum([k \in 1..M |-> k * k * power[k]])
        cumsum == [k \in 1..M |-> NpSum(SubSeq(power, 1, k))]
        reached == {k \in 1..M : 100 * cumsum[k] >= 85 * total_power}
        rolloff_idx == IF reached = {} THEN M ELSE SetMin(reached)
        top == IF M = 0 THEN 0 ELSE NpMax(power)
        peak_indices == {k \in LocalMaxima(power) : 100 * power[k] >= top}
        sorted_idx == SliceTo(ArgsortDesc(power, peak_indices), 5)
    IN  IF SpectralSilent(total_power, e)
        THEN ZeroSpectralStats
        ELSE [centroid_hz |-> (sample_rate * s1) \div (N * total_power),
              bandwidth_hz |-> (sample_rate * Isqrt(s2 * total_power - s1 * s1))
                                  \div (N * total_power),
              rolloff_hz |-> (rolloff_idx * sample_rate) \div N,
              flatness |-> Flatness(power),
              dominant_freqs |-> [i \in 1..Len(sorted_idx) |->
                                     (sorted_idx[i] * sample_rate) \div N]]

(***************************************************************************)
(* TimingStats.                                                            *)
(***************************************************************************)
\* scipy's _select_by_peak_distance: peaks are visited from the highest
\* down, and a visited peak that is still alive removes every other peak
\* closer than distance.
RECURSIVE SelectByDistance(_, _, _)
SelectByDistance(order, alive, distance) ==
    IF Len(order) = 0 THEN alive
    ELSE LET p == Head(order)
         IN  IF p \notin alive
             THEN SelectByDistance(Tail(order), alive, distance)
             ELSE SelectByDistance(Tail(order),
                                   {q \in alive : q = p \/ Abs(q - p) >= distance},
                                   distance)

\* Number of 25 ms frames at a 10 ms hop.
NumFrames(data, sample_rate) ==
    (Len(data) - (25 * sample_rate) \div 1000) \div (sample_rate \div 100) + 1

\* np.max(onset_strength) raises ValueError when there is exactly one frame:
\* np.diff of a one-element array is empty.
detect_transients_raises(data, sample_rate) == NumFrames(data, sample_rate) = 1

ZeroTimingStats ==
    [first_transient_ms |-> 0, num_transients |-> 0, transient_times_ms |-> <<>>]

\* The cap on the reported transient times.
MaxTransientTimes == 20

\* A plausible slip: the last 20 transient times are kept, not the first.
detect_transients_latest(data, sample_rate, threshold_linear) ==
    LET hop_length == sample_rate \div 100
        window_length == (25 * sample_rate) \div 1000
        num_frames == NumFrames(data, sample_rate)
        energies == [i \in 1..num_frames |->
                        SumSq(Slice(data, (i - 1) * hop_length,
                                    (i - 1) * hop_length + window_length))]
        onset_strength == [i \in 1..(num_frames - 1) |->
                              Max2(energies[i + 1] - energies[i], 0)]
        top == NpMax(onset_strength)
        min_distance == (5 * sample_rate) \div (100 * hop_length)
        high == {i \in LocalMaxima(onset_strength) :
                    top > 0 /\ 10 * onset_strength[i] >= top}
        peaks == SetToSeq(SelectByDistance(ArgsortDesc(onset_strength, high), high,
                                           Max2(1, min_distance)))
        transient_times_ms == [i \in 1..Len(peaks) |->
                                  ((peaks[i] - 1) * hop_length * 1000) \div sample_rate]
        first_above == AboveThreshold(data, threshold_linear)
    IN  IF num_frames <= 0
        THEN ZeroTimingStats
        ELSE [first_transient_ms |->
                 IF first_above # {}
                 THEN ((SetMin(first_above) - 1) * 1000) \div sample_rate
                 ELSE 0,
              num_transients |-> Len(peaks),
              transient_times_ms |-> SliceFrom(transient_times_ms,
                                                  Max2(0, Len(transient_times_ms)
                                                            - MaxTransientTimes))]

detect_transients(data, sample_rate, threshold_linear) ==
    LET hop_length == sample_rate \div 100
        window_length == (25 * sample_rate) \div 1000
        num_frames == NumFrames(data, sample_rate)
        energies == [i \in 1..num_frames |->
                        SumSq(Slice(data, (i - 1) * hop_length,
                                    (i - 1) * hop_length + window_length))]
        onset_strength == [i \in 1..(num_frames - 1) |->
                              Max2(energies[i + 1] - energies[i], 0)]
        top == NpMax(onset_strength)
        min_distance == (5 * sample_rate) \div (100 * hop_length)
        high == {i \in LocalMaxima(onset_strength) :
                    top > 0 /\ 10 * onset_strength[i] >= top}
        peaks == SetToSeq(SelectByDistance(ArgsortDesc(onset_strength, high), high,
                                           Max2(1, min_distance)))
        transient_times_ms == [i \in 1..Len(peaks) |->
                                  ((peaks[i] - 1) * hop_length * 1000) \div sample_rate]
        first_above == AboveThreshold(data, threshold_linear)
    IN  IF num_frames <= 0
        THEN ZeroTimingStats
        ELSE [first_transient_ms |->
                 IF first_above # {}
                 THEN ((SetMin(first_above) - 1) * 1000) \div sample_rate
                 ELSE 0,
              num_transients |-> Len(peaks),
              transient_times_ms |-> SliceTo(transient_times_ms, MaxTransientTimes)]

(***************************************************************************)
(* Views.  A view is a sequence of reals s[i] / (m * 10^e): a raw buffer   *)
(* is [s, m = 1, e], a buffer divided by its peak is [s, m = peak, e = 0]. *)
(***************************************************************************)
RawView(data, e) == [s |-> data, m |-> 1, e |-> e]

\* peak * 10^-e > 1e-10, for a natural peak and e <= 10.
AboveEpsilon(peak, e) == peak > 0 /\ (peak > 1 \/ e < 10)

\* data / peak when the peak is above 1e-10, else data.
Normalized(data, e) ==
    LET peak == NpMax(NpAbs(data))
    IN  IF AboveEpsilon(peak, e) THEN [s |-> data, m |-> peak, e |-> 0]
        ELSE RawView(data, e)

\* scipy.ndimage's "reflect" boundary (d c b a | a b c d | d c b a), 0-based.
Reflect(j, n) ==
    LET t == j % (2 * n) IN IF t < n THEN t ELSE 2 * n - 1 - t

\* scipy.ndimage.maximum_filter1d(x, size)
maximum_filter1d(x, size) ==
    [i \in 1..Len(x) |->
        NpMax([k \in 1..size |->
                  x[Reflect(i - 1 - size \div 2 + k - 1, Len(x)) + 1]])]

\* size * scipy.ndimage.uniform_filter1d(x, size)
uniform_filter1d_sum(x, size) ==
    [i \in 1..Len(x) |->
        NpSum([k \in 1..size |->
                  x[Reflect(i - 1 - size \div 2 + k - 1, Len(x)) + 1]])]

\* x[::step]
Decimate(x, step) == [i \in 1..((Len(x) + step - 1) \div step) |-> x[(i - 1) * step + 1]]

\* maximum_filter1d raises RuntimeError on a filter size of 0.
calculate_envelope_raises(sample_rate, window_ms) ==
    (window_ms * sample_rate) \div 1000 = 0

\* The default window_ms of calculate_envelope.
DefaultEnvelopeWindowMs == 10

\* The window_ms calculate_envelope_stats passes.
StatsEnvelopeWindowMs == 5

\* The envelope of a non-empty view.
calculate_envelope(view, sample_rate, window_ms) ==
    LET window_samples == (window_ms * sample_rate) \div 1000
        envelope == uniform_filter1d_sum(maximum_filter1d(NpAbs(view.s), window_samples),
                                         window_samples)
    IN  [s |-> Decimate(envelope, window_samples),
         m |-> view.m * window_samples,
         e |-> view.e]

\* calculate_envelope_stats: its EnvelopeStats never reach the
\* ComparisonResult; what compare_audio can observe is whether it raises.
calculate_envelope_stats_raises(data, sample_rate) ==
    calculate_envelope_raises(sample_rate, StatsEnvelopeWindowMs)

(***************************************************************************)
(* Correlation.                                                            *)
(***************************************************************************)
\* A plausible slip: only an exactly zero denominator is caught.
DenBelowFloor_zero_only(A, B, n, a, b) == A = 0 \/ B = 0

\* den < 1e-10, where den^2 = A * B / (n^2 * (ma*10^ea)^2 * (mb*10^eb)^2).
DenBelowFloor(A, B, n, a, b) ==
    LET X == n * n * a.m * a.m * b.m * b.m
    IN  \/ A = 0
        \/ LtPow10(B, (X + A - 1) \div A, 20 - 2 * a.e - 2 * b.e)

\* |num| / den in thousandths, for 0 < |num| < den.
PearsonMilli(num, A, B) ==
    LET S == IF A <= 2000 /\ B <= 2000 THEN 1000 ELSE 10
        ra == Isqrt(A * S * S)
        rb == Isqrt(B * S * S)
    IN  Min2(999, (((1000 * num * S) \div ra) * S) \div rb)

\* Pearson correlation coefficient of two views, in thousandths.
calculate_correlation(va, vb) ==
    LET n == Min2(Len(va.s), Len(vb.s))
        a == SliceTo(va.s, n)
        b == SliceTo(vb.s, n)
        sum_a == NpSum(a)
        sum_b == NpSum(b)
        a_centered == [i \in 1..n |-> n * a[i] - sum_a]
        b_centered == [i \in 1..n |-> n * b[i] - sum_b]
        num == n * NpSum([i \in 1..n |-> a[i] * b[i]]) - sum_a * sum_b
        A == n * SumSq(a) - sum_a * sum_a
        B == n * SumSq(b) - sum_b * sum_b
    IN  IF n = 0 THEN 0
        ELSE IF DenBelowFloor(A, B, n, va, vb) THEN 0
        ELSE IF \A i, j \in 1..n :
                    a_centered[i] * b_centered[j] = a_centered[j] * b_centered[i]
             THEN IF num > 0 THEN 1000 ELSE -1000
        ELSE IF num = 0 THEN 0
        ELSE IF num > 0 THEN PearsonMilli(num, A, B)
        ELSE -PearsonMilli(-num, A, B)

\* 10 * np.abs(rfft(x)), truncated, for a segment of 1..4 samples.
MagnitudeSpectrum10(x) ==
    [k \in 1..(Len(x) \div 2 + 1) |-> Isqrt(25 * PowerBin4(x, k - 1))]

calculate_spectral_correlation_raises(v1, v2, sample_rate) ==
    Min2(Min2(Len(v1.s), Len(v2.s)), sample_rate) = 0

calculate_spectral_correlation(v1, v2, sample_rate) ==
    LET min_len == Min2(Len(v1.s), Len(v2.s))
        segment_len == Min2(min_len, sample_rate)
        spec1 == [s |-> MagnitudeSpectrum10(SliceTo(v1.s, segment_len)),
                  m |-> 10 * v1.m, e |-> v1.e]
        spec2 == [s |-> MagnitudeSpectrum10(SliceTo(v2.s, segment_len)),
                  m |-> 10 * v2.m, e |-> v2.e]
    IN  calculate_correlation(spec1, spec2)

(***************************************************************************)
(* Similarity score and issue rules.                                       *)
(***************************************************************************)
\* The component scores are carried times 120 and the weights times 2, so
\* that score = num / den exactly, with den = 120 * (2 * total_weight).
ScoreScale == 12 * 10

\* max(0, correlation) * 100, times ScoreScale; correlation in thousandths.
CorrelationScore(corr) == 12 * Max2(0, corr)

\* max(0, 100 - abs(diff_db) * (100 / 12)), times ScoreScale; diff in
\* thousandths of a dB.
LevelScore(diff_db) == Max2(0, 100 * ScoreScale - Abs(diff_db))

\* max(0, 100 - abs(diff_hz) * (100 / 1000)), times ScoreScale.
CentroidScore(diff_hz) == Max2(0, 100 * ScoreScale - 12 * Abs(diff_hz))

RECURSIVE WeightedSum(_, _)
WeightedSum(scores, weights) ==
    IF Len(scores) = 0 THEN 0
    ELSE Head(scores) * Head(weights) + WeightedSum(Tail(scores), Tail(weights))

\* A plausible slip: the correlations are not clamped at 0.
calculate_similarity_score_unclamped(result) ==
    LET scores == <<12 * result.waveform_correlation,
                    12 * result.envelope_correlation,
                    12 * result.spectral_correlation,
                    LevelScore(result.rms_diff_db),
                    LevelScore(result.peak_diff_db),
                    CentroidScore(result.spectral_centroid_diff_hz)>>
                  \o (IF result.aligned
                      THEN <<12 * result.alignment_correlation>> ELSE <<>>)
        weights == <<6, 4, 4, 3, 2, 2>> \o (IF result.aligned THEN <<1>> ELSE <<>>)
    IN  [num |-> WeightedSum(scores, weights), den |-> ScoreScale * NpSum(weights)]

\* The similarity score as the fraction num / den.
calculate_similarity_score(result) ==
    LET scores == <<CorrelationScore(result.waveform_correlation),
                    CorrelationScore(result.envelope_correlation),
                    CorrelationScore(result.spectral_correlation),
                    LevelScore(result.rms_diff_db),
                    LevelScore(result.peak_diff_db),
                    CentroidScore(result.spectral_centroid_diff_hz)>>
                  \o (IF result.aligned
                      THEN <<CorrelationScore(result.alignment_correlation)>>
                      ELSE <<>>)
        weights == <<6, 4, 4, 3, 2, 2>> \o (IF result.aligned THEN <<1>> ELSE <<>>)
    IN  [num |-> WeightedSum(scores, weights), den |-> ScoreScale * NpSum(weights)]

\* abs(dc_offset) > 0.01 for the fraction num / den.
DcOffsetIssue(dc_offset) == 100 * Abs(dc_offset.num) > dc_offset.den

\* A plausible slip: the spectral rules are appended after the correlation
\* rules.
detect_issues_reordered(result) ==
    (IF Abs(result.peak_diff_db) > 3000 THEN <<"peak_level">> ELSE <<>>)
    \o (IF Abs(result.rms_diff_db) > 3000 THEN <<"rms_level">> ELSE <<>>)
    \o (IF result.aligned /\ Abs(result.alignment_offset_ms) > 10
        THEN <<"timing_offset">> ELSE <<>>)
    \o (IF Abs(result.timing1.first_transient_ms - result.timing2.first_transient_ms) > 20
        THEN <<"first_transient">> ELSE <<>>)
    \o (IF result.waveform_correlation < 800 THEN <<"waveform_correlation">> ELSE <<>>)
    \o (IF Abs(result.spectral_centroid_diff_hz) > 200
        THEN <<"spectral_centroid">> ELSE <<>>)
    \o (IF result.spectral_correlation < 900 THEN <<"spectral_correlation">> ELSE <<>>)
    \o (IF DcOffsetIssue(result.amplitude1.dc_offset) THEN <<"dc_offset_1">> ELSE <<>>)
    \o (IF DcOffsetIssue(result.amplitude2.dc_offset) THEN <<"dc_offset_2">> ELSE <<>>)

\* The issues, each named by its rule, in the order they are appended.
detect_issues(result) ==
    (IF Abs(result.peak_diff_db) > 3000 THEN <<"peak_level">> ELSE <<>>)
    \o (IF Abs(result.rms_diff_db) > 3000 THEN <<"rms_level">> ELSE <<>>)
    \o (IF result.aligned /\ Abs(result.alignment_offset_ms) > 10
        THEN <<"timing_offset">> ELSE <<>>)
    \o (IF Abs(result.timing1.first_transient_ms - result.timing2.first_transient_ms) > 20
        THEN <<"first_transient">> ELSE <<>>)
    \o (IF Abs(result.spectral_centroid_diff_hz) > 200
        THEN <<"spectral_centroid">> ELSE <<>>)
    \o (IF result.waveform_correlation < 800 THEN <<"waveform_correlation">> ELSE <<>>)
    \o (IF result.spectral_correlation < 900 THEN <<"spectral_correlation">> ELSE <<>>)
    \o (IF DcOffsetIssue(result.amplitude1.dc_offset) THEN <<"dc_offset_1">> ELSE <<>>)
    \o (IF DcOffsetIssue(result.amplitude2.dc_offset) THEN <<"dc_offset_2">> ELSE <<>>)

(***************************************************************************)
(* compare_audio and main as a state machine.  compare_audio runs in five  *)
(* consecutive blocks (alignment, per-file statistics, correlations and    *)
(* result construction, score, issues); pc is the block that runs next.    *)
(***************************************************************************)
VARIABLES
    state1, state2,      \* whether each file exists and can be decoded
    data1, data2,        \* the samples load_audio yields for each file
    sample_rate,         \* the files' common sample rate
    unit_exp,            \* the decimal exponent of the sample unit
    args,                \* --align, --trim, --normalize, --threshold
    pc,                  \* where the process is
    alignment,           \* compare_audio's locals after the alignment block
    views,               \* data1_aligned, data2_aligned after normalisation
    result,              \* the ComparisonResult under construction
    outcome,             \* how the process ended
    exit_code,           \* the process exit status, -1 while running
    call                 \* a direct call of one function: arguments and return

vars == <<state1, state2, data1, data2, sample_rate, unit_exp, args, pc,
          alignment, views, result, outcome, exit_code, call>>

inputs == <<state1, state2, data1, data2, sample_rate, unit_exp, args>>

Args == [align : BOOLEAN, trim : BOOLEAN, normalize : BOOLEAN,
         threshold : ThresholdLevels]

NoAlignment ==
    [offset |-> 0, offset_ms |-> 0, align_corr |-> 0, head1 |-> 0, head2 |-> 0,
     data1_aligned |-> <<>>, data2_aligned |-> <<>>, data2 |-> <<>>]

NoViews == [v1 |-> RawView(<<>>, 0), v2 |-> RawView(<<>>, 0)]

\* No function is called on its own: the process runs main.
NoCall == [fn |-> "main"]

ZeroAmplitudeStats ==
    [peak_linear |-> 0, peak_db |-> 0, rms_sq |-> [num |-> 0, den |-> 1],
     rms_db |-> 0, crest_factor_db |-> 0, dynamic_range_db |-> 0,
     dc_offset |-> [num |-> 0, den |-> 1]]

NoResult ==
    [sample_rate |-> 0,
     duration1_s |-> [num |-> 0, den |-> 1],
     duration2_s |-> [num |-> 0, den |-> 1],
     aligned |-> FALSE, alignment_offset_ms |-> 0, alignment_correlation |-> 0,
     amplitude1 |-> ZeroAmplitudeStats, amplitude2 |-> ZeroAmplitudeStats,
     spectral1 |-> ZeroSpectralStats, spectral2 |-> ZeroSpectralStats,
     timing1 |-> ZeroTimingStats, timing2 |-> ZeroTimingStats,
     peak_diff_db |-> 0, rms_diff_db |-> 0, spectral_centroid_diff_hz |-> 0,
     waveform_correlation |-> 0, envelope_correlation |-> 0,
     spectral_correlation |-> 0,
     similarity_score |-> [num |-> 0, den |-> 1],
     issues |-> <<>>]

\* The process starts: two paths and the options on the command line.
Init ==
    /\ state1 \in FileStates
    /\ state2 \in FileStates
    /\ data1 \in (IF state1 = "ok" /\ state2 = "ok" THEN Buffers ELSE {<<>>})
    /\ data2 \in (IF state1 = "ok" /\ state2 = "ok" THEN Buffers ELSE {<<>>})
    /\ sample_rate \in SampleRates
    /\ unit_exp \in InputExps
    /\ args \in Args
    /\ pc = "validate"
    /\ alignment = NoAlignment
    /\ views = NoViews
    /\ result = NoResult
    /\ outcome = "running"
    /\ exit_code = -1
    /\ call = NoCall

\* An uncaught exception: the interpreter prints the traceback and the
\* process exits with status 1.
Raise(kind) ==
    /\ pc' = "done"
    /\ outcome' = kind
    /\ exit_code' = 1

\* main: "Validate files exist" -- a missing file prints an error and
\* exits with status 1.
ValidateFiles ==
    /\ pc = "validate"
    /\ IF state1 = "missing" \/ state2 = "missing"
       THEN /\ pc' = "done"
            /\ outcome' = "file_not_found"
            /\ exit_code' = 1
       ELSE /\ pc' = "align"
            /\ UNCHANGED <<outcome, exit_code>>
    /\ UNCHANGED <<inputs, call, alignment, views, result>>

\* compare_audio: load the files and align them.  soundfile raises on a file
\* it cannot decode, np.max raises on an empty buffer.
LoadAndAlign ==
    /\ pc = "align"
    /\ IF state1 = "unreadable" \/ state2 = "unreadable"
       THEN Raise("load_error") /\ UNCHANGED alignment
       ELSE IF AlignBlockRaises(data1, data2, args.align)
       THEN Raise("analysis_error") /\ UNCHANGED alignment
       ELSE /\ pc' = "analyse"
            /\ alignment' = AlignBlock(data1, data2, args.align, args.trim,
                                       sample_rate, args.threshold)
            /\ UNCHANGED <<outcome, exit_code>>
    /\ UNCHANGED <<inputs, call, views, result>>

\* The aligned views after the optional normalisation.
NormalizeBlock(al, normalize, e) ==
    [v1 |-> IF normalize THEN Normalized(al.data1_aligned, e)
            ELSE RawView(al.data1_aligned, e),
     v2 |-> IF normalize THEN Normalized(al.data2_aligned, e)
            ELSE RawView(al.data2_aligned, e)]

\* compare_audio: normalise the aligned views, then the per-file statistics
\* of data1 and of data2 as the alignment block left it.
AnalyseFiles ==
    /\ pc = "analyse"
    /\ IF \/ args.normalize /\ (\/ NpMaxRaises(alignment.data1_aligned)
                                \/ NpMaxRaises(alignment.data2_aligned))
          \/ calculate_amplitude_stats_raises(data1)
          \/ calculate_amplitude_stats_raises(alignment.data2)
          \/ calculate_spectral_stats_raises(data1)
          \/ calculate_spectral_stats_raises(alignment.data2)
          \/ detect_transients_raises(data1, sample_rate)
          \/ detect_transients_raises(alignment.data2, sample_rate)
       THEN Raise("analysis_error") /\ UNCHANGED <<views, result>>
       ELSE /\ pc' = "correlate"
            /\ views' = NormalizeBlock(alignment, args.normalize, unit_exp)
            /\ result' =
                 [result EXCEPT
                    !.amplitude1 = calculate_amplitude_stats(
                                       data1, sample_rate, args.threshold, unit_exp),
                    !.amplitude2 = calculate_amplitude_stats(
                                       alignment.data2, sample_rate, args.threshold,
                                       unit_exp),
                    !.spectral1 = calculate_spectral_stats(data1, sample_rate, unit_exp),
                    !.spectral2 = calculate_spectral_stats(alignment.data2, sample_rate,
                                                           unit_exp),
                    !.timing1 = detect_transients(data1, sample_rate, args.threshold),
                    !.timing2 = detect_transients(alignment.data2, sample_rate,
                                                  args.threshold)]
            /\ UNCHANGED <<outcome, exit_code>>
    /\ UNCHANGED <<inputs, call, alignment>>

\* compare_audio: the correlations on the aligned views, the envelope
\* statistics (computed and dropped) and the ComparisonResult constructor.
CorrelateFiles ==
    /\ pc = "correlate"
    /\ IF \/ calculate_envelope_raises(sample_rate, DefaultEnvelopeWindowMs)
          \/ calculate_spectral_correlation_raises(views.v1, views.v2, sample_rate)
          \/ calculate_envelope_stats_raises(data1, sample_rate)
          \/ calculate_envelope_stats_raises(alignment.data2, sample_rate)
       THEN Raise("analysis_error") /\ UNCHANGED result
       ELSE /\ pc' = "score"
            /\ result' =
                 [result EXCEPT
                    !.sample_rate = sample_rate,
                    !.duration1_s = [num |-> Len(data1), den |-> sample_rate],
                    !.duration2_s = [num |-> Len(alignment.data2), den |-> sample_rate],
                    !.aligned = args.align,
                    !.alignment_offset_ms = alignment.offset_ms,
                    !.alignment_correlation = alignment.align_corr,
                    !.peak_diff_db = result.amplitude2.peak_db - result.amplitude1.peak_db,
                    !.rms_diff_db = result.amplitude2.rms_db - result.amplitude1.rms_db,
                    !.spectral_centroid_diff_hz =
                        result.spectral2.centroid_hz - result.spectral1.centroid_hz,
                    !.waveform_correlation = calculate_correlation(views.v1, views.v2),
                    !.envelope_correlation =
                        calculate_correlation(
                            calculate_envelope(views.v1, sample_rate,
                                               DefaultEnvelopeWindowMs),
                            calculate_envelope(views.v2, sample_rate,
                                               DefaultEnvelopeWindowMs)),
                    !.spectral_correlation =
                        calculate_spectral_correlation(views.v1, views.v2, sample_rate)]
            /\ UNCHANGED <<outcome, exit_code>>
    /\ UNCHANGED <<inputs, call, alignment, views>>

\* compare_audio: result.similarity_score = calculate_similarity_score(result)
ScoreResult ==
    /\ pc = "score"
    /\ pc' = "issues"
    /\ result' = [result EXCEPT !.similarity_score = calculate_similarity_score(result)]
    /\ UNCHANGED <<inputs, call, alignment, views, outcome, exit_code>>

\* compare_audio: result.issues = detect_issues(result)
DetectIssues ==
    /\ pc = "issues"
    /\ pc' = "exit"
    /\ result' = [result EXCEPT !.issues = detect_issues(result)]
    /\ UNCHANGED <<inputs, call, alignment, views, outcome, exit_code>>

\* A plausible slip: <= instead of < at the two boundaries.
ExitStatus_inclusive(score) ==
    IF score.num <= 50 * score.den THEN 2
    ELSE IF score.num <= 80 * score.den THEN 1
    ELSE 0

\* main: "Return exit code based on similarity".
ExitStatus(score) ==
    IF score.num < 50 * score.den THEN 2
    ELSE IF score.num < 80 * score.den THEN 1
    ELSE 0

ExitBySimilarity ==
    /\ pc = "exit"
    /\ pc' = "done"
    /\ outcome' = "compared"
    /\ exit_code' = ExitStatus(result.similarity_score)
    /\ UNCHANGED <<inputs, call, alignment, views, result>>

Next ==
    \/ ValidateFiles
    \/ LoadAndAlign
    \/ AnalyseFiles
    \/ CorrelateFiles
    \/ ScoreResult
    \/ DetectIssues
    \/ ExitBySimilarity

Spec == Init /\ [][Next]_vars

(***************************************************************************)
(* calculate_similarity_score, detect_issues and the exit status as pure   *)
(* functions of a ComparisonResult: the result is drawn from values that   *)
(* sit on and around every threshold of the scorer, the rules and the exit *)
(* status.                                                                 *)
(***************************************************************************)
\* Correlations in thousandths.
WaveformValues == {-1000, 300, 799, 800, 1000}

EnvelopeValues == {-1000, 1000}

SpectralValues == {-1000, 899, 900, 1000}

AlignmentCorrelationValues == {-1000, 1000}

\* Level differences in thousandths of a dB.
RmsDiffValues == {-13000, -3001, 0, 2000, 3000}

PeakDiffValues == {0, 3000, 3001}

\* Hz.
CentroidDiffValues == {-201, 0, 200, 1001}

\* ms.
OffsetMsValues == {-11, 10}

FirstTransientMsValues == {20, 21}

\* DC offsets as fractions of full scale.
DcOffsetValues == {[num |-> 1, den |-> 100], [num |-> -2, den |-> 100]}

\* compare_audio has constructed a ComparisonResult and is about to score it.
InitResult ==
    /\ state1 = "ok"
    /\ state2 = "ok"
    /\ data1 = <<>>
    /\ data2 = <<>>
    /\ sample_rate \in SampleRates
    /\ unit_exp = 0
    /\ result \in
        {[NoResult EXCEPT
             !.aligned = al,
             !.alignment_offset_ms = off,
             !.alignment_correlation = ac,
             !.amplitude1 = [ZeroAmplitudeStats EXCEPT !.dc_offset = dc1],
             !.amplitude2 = [ZeroAmplitudeStats EXCEPT !.dc_offset = dc2],
             !.timing2 = [ZeroTimingStats EXCEPT !.first_transient_ms = ft],
             !.peak_diff_db = pk,
             !.rms_diff_db = rms,
             !.spectral_centroid_diff_hz = cen,
             !.waveform_correlation = w,
             !.envelope_correlation = env,
             !.spectral_correlation = sp] :
            al \in BOOLEAN, off \in OffsetMsValues, ac \in AlignmentCorrelationValues,
            dc1 \in DcOffsetValues, dc2 \in DcOffsetValues, ft \in FirstTransientMsValues,
            pk \in PeakDiffValues, rms \in RmsDiffValues, cen \in CentroidDiffValues,
            w \in WaveformValues, env \in EnvelopeValues, sp \in SpectralValues}
    /\ args \in {a \in Args : a.align = result.aligned /\ ~a.trim /\ ~a.normalize}
    /\ pc = "score"
    /\ alignment = NoAlignment
    /\ views = NoViews
    /\ outcome = "running"
    /\ exit_code = -1
    /\ call = NoCall

NextResult == ScoreResult \/ DetectIssues \/ ExitBySimilarity

SpecResult == InitResult /\ [][NextResult]_vars

(***************************************************************************)
(* Functions called on their own.  The pipeline is idle; call holds the    *)
(* function's name and arguments and, once it has returned, its value.     *)
(***************************************************************************)
pipeline == <<state1, state2, data1, data2, sample_rate, unit_exp, args, pc,
              alignment, views, result, outcome, exit_code>>

Idle ==
    /\ state1 = "ok"
    /\ state2 = "ok"
    /\ data1 = <<>>
    /\ data2 = <<>>
    /\ sample_rate \in SampleRates
    /\ unit_exp = 0
    /\ args \in {a \in Args : ~a.align /\ ~a.trim /\ ~a.normalize}
    /\ pc = "call"
    /\ alignment = NoAlignment
    /\ views = NoViews
    /\ result = NoResult
    /\ outcome = "running"
    /\ exit_code = -1

\* -a
Negated(a) == [i \in 1..Len(a) |-> -a[i]]

\* calculate_correlation(a, b) on two arrays of any two lengths; b is any
\* buffer or the negation of a.
InitCorrelation ==
    /\ Idle
    /\ \E x \in Buffers, e \in InputExps :
          \E y \in Buffers \cup {Negated(x)} :
              call = [fn |-> "calculate_correlation",
                      a |-> RawView(x, e), b |-> RawView(y, e),
                      returned |-> FALSE, value |-> 0]

CallCorrelation ==
    /\ call.fn = "calculate_correlation"
    /\ ~call.returned
    /\ call' = [call EXCEPT !.returned = TRUE,
                            !.value = calculate_correlation(call.a, call.b)]
    /\ UNCHANGED pipeline

NextCorrelation == CallCorrelation

SpecCorrelation == InitCorrelation /\ [][NextCorrelation]_vars

\* Sample rates of the two files of a comparison that needs resampling (Hz).
ResampleRates == {44100, 48000, 96000}

\* resample_if_needed(data, sr_orig, sr_target)
InitResample ==
    /\ Idle
    /\ call \in [fn : {"resample_if_needed"}, data : Buffers,
                  sr_orig : ResampleRates, sr_target : ResampleRates,
                  returned : {FALSE}, value : {[array |-> <<>>, length |-> 0]}]

CallResample ==
    /\ call.fn = "resample_if_needed"
    /\ ~call.returned
    /\ call' = [call EXCEPT
                   !.returned = TRUE,
                   !.value = resample_if_needed(call.data, call.sr_orig, call.sr_target)]
    /\ UNCHANGED pipeline

NextResample == CallResample

SpecResample == InitResample /\ [][NextResample]_vars

\* max_offset_ms of a call of find_alignment_offset: at 200 Hz windows of
\* 1, 2 and 100 samples.
MaxOffsetsMs == {5, 10, DefaultMaxOffsetMs}

\* find_alignment_offset(ref, target, max_offset_ms, sample_rate)
InitCrossCorrelation ==
    /\ Idle
    /\ call \in [fn : {"find_alignment_offset"}, ref : Buffers, target : Buffers,
                  max_offset_ms : MaxOffsetsMs, sample_rate : SampleRates,
                  returned : {FALSE}, raised : {FALSE},
                  value : {[offset |-> 0, corr_coef |-> 0]}]

CallCrossCorrelation ==
    /\ call.fn = "find_alignment_offset"
    /\ ~call.returned
    /\ ~call.raised
    /\ IF find_alignment_offset_raises(call.ref, call.target, call.max_offset_ms,
                                       call.sample_rate)
       THEN call' = [call EXCEPT !.raised = TRUE]
       ELSE call' = [call EXCEPT
                       !.returned = TRUE,
                       !.value = find_alignment_offset(call.ref, call.target,
                                                       call.max_offset_ms,
                                                       call.sample_rate)]
    /\ UNCHANGED pipeline

NextCrossCorrelation == CallCrossCorrelation

SpecCrossCorrelation == InitCrossCorrelation /\ [][NextCrossCorrelation]_vars

\* Sample values at zero, just above it, and on either side of ten times the
\* threshold; the threshold in the same unit.
ConfidenceSampleValues == {0, 1, 29, -30}

ConfidenceThresholds == {3}

\* Sample rates of the call: at 2 Hz a buffer of three samples is longer
\* than one second.
FirstSecondRates == {2, 200}

ConfidenceBuffers == UNION {[1..n -> ConfidenceSampleValues] : n \in 0..MaxLen}

\* find_alignment_offset_by_transient(ref, target, sample_rate, threshold_db)
InitTransientAlignment ==
    /\ Idle
    /\ call \in [fn : {"find_alignment_offset_by_transient"},
                  ref : ConfidenceBuffers, target : ConfidenceBuffers,
                  sample_rate : FirstSecondRates,
                  threshold_linear : ConfidenceThresholds,
                  returned : {FALSE}, raised : {FALSE},
                  value : {[offset |-> 0, confidence |-> 0]}]

CallTransientAlignment ==
    /\ call.fn = "find_alignment_offset_by_transient"
    /\ ~call.returned
    /\ ~call.raised
    /\ IF find_alignment_offset_by_transient_raises(call.ref, call.target)
       THEN call' = [call EXCEPT !.raised = TRUE]
       ELSE call' = [call EXCEPT
                       !.returned = TRUE,
                       !.value = find_alignment_offset_by_transient(
                                     call.ref, call.target, call.sample_rate,
                                     call.threshold_linear)]
    /\ UNCHANGED pipeline

NextTransientAlignment == CallTransientAlignment

SpecTransientAlignment == InitTransientAlignment /\ [][NextTransientAlignment]_vars

\* Most impulses in a buffer handed to detect_transients.
MaxImpulses == 22

\* lead samples of silence, then count impulses one every period samples,
\* all of magnitude 2 or alternately 2 and 1.
ImpulseTrain(lead, count, period, alternate) ==
    [i \in 1..(lead + count * period) |->
        IF i > lead /\ (i - lead - 1) % period = 0
        THEN (IF alternate /\ ((i - lead - 1) \div period) % 2 = 1 THEN 1 ELSE 2)
        ELSE 0]

\* Sample rates of the call: at 100 Hz one hop is one sample, one frame two.
TransientRates == {100}

\* detect_transients(data, sample_rate, threshold_db) on impulse trains.
\* Equal impulses closer than the minimum distance are left out: which of
\* them survive depends on how np.argsort orders ties.
InitTransients ==
    /\ Idle
    /\ call \in {[fn |-> "detect_transients",
                   data |-> ImpulseTrain(q[1], q[2], q[3], q[4]),
                   sample_rate |-> rate, threshold_linear |-> t,
                   returned |-> FALSE, raised |-> FALSE, value |-> ZeroTimingStats] :
                     q \in {r \in {0, 1, 3} \X (0..MaxImpulses) \X {1, 3, 5} \X BOOLEAN :
                               r[3] # 3 \/ r[4]},
                     rate \in TransientRates, t \in ThresholdLevels}

CallTransients ==
    /\ call.fn = "detect_transients"
    /\ ~call.returned
    /\ ~call.raised
    /\ IF detect_transients_raises(call.data, call.sample_rate)
       THEN call' = [call EXCEPT !.raised = TRUE]
       ELSE call' = [call EXCEPT
                       !.returned = TRUE,
                       !.value = detect_transients(call.data, call.sample_rate,
                                                   call.threshold_linear)]
    /\ UNCHANGED pipeline

NextTransients == CallTransients

SpecTransients == InitTransients /\ [][NextTransients]_vars

(***************************************************************************)
(* Properties.                                                             *)
(***************************************************************************)
\* The alignment block of compare_audio has completed.
AfterAlignment == pc \in {"analyse", "correlate", "score", "issues", "exit"}

\* The per-file statistics of compare_audio have been computed.
AfterAnalysis == pc \in {"correlate", "score", "issues", "exit"}

\* first_index of the specification: the 0-based index of the first sample
\* whose absolute value exceeds the threshold, 0 if there is none.
FirstIndex(buffer, threshold) ==
    IF \E i \in 1..Len(buffer) : Abs(buffer[i]) > threshold
    THEN (CHOOSE i \in 1..Len(buffer) :
             /\ Abs(buffer[i]) > threshold
             /\ \A j \in 1..(i - 1) : Abs(buffer[j]) <= threshold) - 1
    ELSE 0

\* k samples of silence.
Silence(k) == [i \in 1..k |-> 0]

\* C1: whenever compare_audio aligns two buffers, the offset is
\* first_index(target) - first_index(reference); a positive offset removes
\* exactly offset samples from the head of the target and none from the
\* reference, a negative offset removes exactly |offset| samples from the
\* head of the reference and none from the target, and offset 0 trims
\* neither head.
C1_TransientOffsetAndHeads ==
    (AfterAlignment /\ args.align) =>
        LET offset == FirstIndex(data2, args.threshold) - FirstIndex(data1, args.threshold)
            n == Len(alignment.data1_aligned)
            skip1 == IF offset < 0 THEN -offset ELSE 0
            skip2 == IF offset > 0 THEN offset ELSE 0
        IN  /\ alignment.offset = offset
            /\ Len(alignment.data2_aligned) = n
            /\ skip1 + n <= Len(data1)
            /\ skip2 + n <= Len(data2)
            /\ alignment.data1_aligned = SubSeq(data1, skip1 + 1, skip1 + n)
            /\ alignment.data2_aligned = SubSeq(data2, skip2 + 1, skip2 + n)

\* C1 witness: a positive offset has removed two samples from the head of
\* the target and left a non-empty aligned pair.
C1_Witness ==
    /\ AfterAlignment
    /\ args.align
    /\ alignment.offset = 2
    /\ Len(alignment.data2_aligned) > 0
    /\ alignment.data2_aligned[1] = data2[3]
    /\ alignment.data1_aligned[1] = data1[1]

\* The target is the reference delayed by k samples of leading silence.
DelayedBy(k) == data2 = Silence(k) \o data1

\* C2 as stated: for every signal and every delay k >= 0, aligning the
\* signal against its copy delayed by k samples yields offset = k.
C2_DelayRecovered ==
    \A k \in 0..MaxLen :
        (AfterAlignment /\ args.align /\ DelayedBy(k)) => alignment.offset = k

\* C2 amended: for every signal that has a sample above the threshold and
\* every delay k >= 0, aligning the signal against its copy delayed by k
\* samples yields offset = k.
C2_DelayRecoveredAudible ==
    \A k \in 0..MaxLen :
        (/\ AfterAlignment
         /\ args.align
         /\ DelayedBy(k)
         /\ \E i \in 1..Len(data1) : Abs(data1[i]) > args.threshold)
            => alignment.offset = k

\* C2 witness: a signal whose first audible sample is not its first sample,
\* delayed by one sample, is aligned with offset 1.
C2_Witness ==
    /\ AfterAlignment
    /\ args.align
    /\ DelayedBy(1)
    /\ Abs(data1[1]) <= args.threshold
    /\ \E i \in 1..Len(data1) : Abs(data1[i]) > args.threshold
    /\ alignment.offset = 1

\* C3: the per-file statistics of a ComparisonResult and the differences
\* derived from them are those of the original buffers, whatever the align,
\* trim and normalize options are.
C3_StatsOnOriginals ==
    AfterAnalysis =>
        /\ result.amplitude1 =
              calculate_amplitude_stats(data1, sample_rate, args.threshold, unit_exp)
        /\ result.amplitude2 =
              calculate_amplitude_stats(data2, sample_rate, args.threshold, unit_exp)
        /\ result.spectral1 = calculate_spectral_stats(data1, sample_rate, unit_exp)
        /\ result.spectral2 = calculate_spectral_stats(data2, sample_rate, unit_exp)
        /\ result.timing1 = detect_transients(data1, sample_rate, args.threshold)
        /\ result.timing2 = detect_transients(data2, sample_rate, args.threshold)

\* C4: a comparison of readable files of which one is empty completes; no
\* analyzer raises.
C4_EmptyNeverFatal ==
    (/\ state1 = "ok"
     /\ state2 = "ok"
     /\ (Len(data1) = 0 \/ Len(data2) = 0))
        => outcome # "analysis_error"

\* A non-empty buffer of zeros.
AllZero(buffer) == Len(buffer) > 0 /\ \A i \in 1..Len(buffer) : buffer[i] = 0

\* The statistics the specification gives an all-zero buffer: all-zero
\* SpectralStats, peak and RMS at the floor of -200 dB, crest factor and
\* dynamic range 0.
SilentStats(amplitude, spectral) ==
    /\ spectral.centroid_hz = 0
    /\ spectral.bandwidth_hz = 0
    /\ spectral.rolloff_hz = 0
    /\ spectral.flatness = 0
    /\ spectral.dominant_freqs = <<>>
    /\ amplitude.peak_db = -200 * 1000
    /\ amplitude.rms_db = -200 * 1000
    /\ amplitude.crest_factor_db = 0
    /\ amplitude.dynamic_range_db = 0

\* C5: for an all-zero buffer of non-zero length calculate_spectral_stats
\* returns all-zero SpectralStats and calculate_amplitude_stats returns
\* rms_db = peak_db = -200 dB, crest factor 0 and dynamic range 0.
C5_SilentBufferStats ==
    AfterAnalysis =>
        /\ AllZero(data1) => SilentStats(result.amplitude1, result.spectral1)
        /\ AllZero(data2) => SilentStats(result.amplitude2, result.spectral2)

\* C5 witness: an all-zero file of more than one sample has been analysed
\* next to a file that is not silent.
C5_Witness ==
    /\ AfterAnalysis
    /\ AllZero(data1)
    /\ Len(data1) > 1
    /\ ~AllZero(data2)
    /\ result.amplitude1.rms_db = -200 * 1000
    /\ result.spectral1 = ZeroSpectralStats
    /\ result.spectral2 # ZeroSpectralStats

\* C6: a missing or unreadable input file ends the process before any
\* analysis, with an exit status that is none of the similarity-based exit
\* statuses 0, 1 and 2.
C6_InputErrorStatusDistinct ==
    outcome \in {"file_not_found", "load_error"} =>
        /\ alignment = NoAlignment
        /\ result = NoResult
        /\ exit_code \notin {0, 1, 2}

\* C7: after a completed comparison the exit code is 0 exactly when the
\* score is >= 80, 1 exactly when 50 <= score < 80 and 2 exactly when the
\* score is < 50.
C7_ExitCodeBands ==
    (pc = "done" /\ outcome = "compared") =>
        LET score == result.similarity_score
        IN  /\ exit_code \in {0, 1, 2}
            /\ exit_code = 0 <=> score.num >= 80 * score.den
            /\ exit_code = 1 <=> (50 * score.den <= score.num /\ score.num < 80 * score.den)
            /\ exit_code = 2 <=> score.num < 50 * score.den

\* C7 witness: a comparison whose score is exactly 80 has exited with 0.
C7_Witness ==
    /\ pc = "done"
    /\ outcome = "compared"
    /\ result.similarity_score.num = 80 * result.similarity_score.den
    /\ exit_code = 0

\* C8: the similarity score is the weighted average of the component scores
\* clamped at 0 (weights 3, 2, 2, 1.5, 1, 1 and, when aligned, 0.5 for the
\* alignment correlation), divided by the weights applied (10.5 or 11), and
\* lies in [0, 100].  Both sides are taken times 2 * 120: correlations are in
\* thousandths, level differences in thousandths of a dB.
C8_WeightedAverage ==
    pc \in {"issues", "exit", "done"} =>
        LET r == result
            score == r.similarity_score
            weighted ==
                6 * 12 * Max2(0, r.waveform_correlation)
                + 4 * 12 * Max2(0, r.envelope_correlation)
                + 4 * 12 * Max2(0, r.spectral_correlation)
                + 3 * Max2(0, 12000 - Abs(r.rms_diff_db))
                + 2 * Max2(0, 12000 - Abs(r.peak_diff_db))
                + 2 * Max2(0, 12000 - 12 * Abs(r.spectral_centroid_diff_hz))
                + (IF r.aligned THEN 12 * Max2(0, r.alignment_correlation) ELSE 0)
        IN  /\ score.den = 120 * (IF r.aligned THEN 22 ELSE 21)
            /\ score.num = weighted
            /\ 0 <= score.num
            /\ score.num <= 100 * score.den

\* C8 witness: an aligned result with a negative waveform correlation and a
\* negative alignment correlation has been scored strictly between 0 and 100.
C8_Witness ==
    /\ pc = "issues"
    /\ result.aligned
    /\ result.waveform_correlation < 0
    /\ result.alignment_correlation < 0
    /\ result.similarity_score.num > 0
    /\ result.similarity_score.num < 100 * result.similarity_score.den

\* C9: comparing two identical buffers whose waveform is not constant (as
\* the specification's sine is not), alignment and normalisation disabled,
\* yields waveform correlation 1.0, peak and RMS differences 0 and a
\* similarity score >= 99.
C9_IdenticalBuffers ==
    (/\ pc \in {"issues", "exit"}
     /\ ~args.align
     /\ ~args.normalize
     /\ data1 = data2
     /\ \E i, j \in 1..Len(data1) : data1[i] # data1[j])
        => /\ result.waveform_correlation = 1000
           /\ result.peak_diff_db = 0
           /\ result.rms_diff_db = 0
           /\ result.similarity_score.num >= 99 * result.similarity_score.den

\* The rules of detect_issues in the order of the specification.
IssueOrder ==
    <<"peak_level", "rms_level", "timing_offset", "first_transient",
      "spectral_centroid", "waveform_correlation", "spectral_correlation",
      "dc_offset_1", "dc_offset_2">>

\* The predicate of each rule: 3 dB, 10 ms, 20 ms, 200 Hz, 0.8, 0.9, 0.01.
Triggered(rule, r) ==
    CASE rule = "peak_level" -> Abs(r.peak_diff_db) > 3000
      [] rule = "rms_level" -> Abs(r.rms_diff_db) > 3000
      [] rule = "timing_offset" -> r.aligned /\ Abs(r.alignment_offset_ms) > 10
      [] rule = "first_transient" ->
             Abs(r.timing1.first_transient_ms - r.timing2.first_transient_ms) > 20
      [] rule = "spectral_centroid" -> Abs(r.spectral_centroid_diff_hz) > 200
      [] rule = "waveform_correlation" -> r.waveform_correlation < 800
      [] rule = "spectral_correlation" -> r.spectral_correlation < 900
      [] rule = "dc_offset_1" ->
             100 * Abs(r.amplitude1.dc_offset.num) > r.amplitude1.dc_offset.den
      [] rule = "dc_offset_2" ->
             100 * Abs(r.amplitude2.dc_offset.num) > r.amplitude2.dc_offset.den

IssuePosition(rule) == CHOOSE i \in 1..Len(IssueOrder) : IssueOrder[i] = rule

\* C10: an issue is present iff its rule's predicate holds, the issues are
\* in the fixed order of the rules, and the timing-offset issue never
\* appears when aligned is false.
C10_IssuesInFixedOrder ==
    pc \in {"exit", "done"} =>
        LET issues == result.issues
        IN  /\ \A i \in 1..Len(issues) : \E k \in 1..Len(IssueOrder) : issues[i] = IssueOrder[k]
            /\ \A k \in 1..Len(IssueOrder) :
                   (\E i \in 1..Len(issues) : issues[i] = IssueOrder[k])
                       <=> Triggered(IssueOrder[k], result)
            /\ \A i, j \in 1..Len(issues) :
                   i < j => IssuePosition(issues[i]) < IssuePosition(issues[j])
            /\ ~result.aligned => \A i \in 1..Len(issues) : issues[i] # "timing_offset"

\* C10 witness: every rule has triggered and the nine issues are in order.
C10_Witness ==
    /\ pc = "exit"
    /\ result.issues = IssueOrder

\* n times the sum of squared deviations of x from its mean.
Deviation(x) == Len(x) * SumSq(x) - NpSum(x) * NpSum(x)

NonConstant(x) == \E i, j \in 1..Len(x) : x[i] # x[j]

Returned(fn) == call.fn = fn /\ call.returned

\* C11: calculate_correlation of any non-constant sequence with itself is
\* 1.0, and with its exact element-wise negation is -1.0.
C11_SelfAndNegation ==
    Returned("calculate_correlation") /\ NonConstant(call.a.s) =>
        /\ call.b.s = call.a.s => call.value = 1000
        /\ call.b.s = Negated(call.a.s) => call.value = -1000

\* The sum of squared deviations of x from its mean, x in units of 10^-e,
\* exceeds 1e-10.
DeviationAboveFloor(x, e) == ~LtPow10(Deviation(x), Len(x) + 1, 10 - 2 * e)

\* Where the 1e-10 floor decides: a sequence whose sum of squared deviations
\* from its mean exceeds 1e-10 correlates 1.0 with itself and -1.0 with its
\* negation; below 1e-10 the coefficient is 0 in both cases.
SelfAndNegationByFloor ==
    Returned("calculate_correlation")
      /\ (call.b.s = call.a.s \/ call.b.s = Negated(call.a.s)) =>
        /\ DeviationAboveFloor(call.a.s, call.a.e) =>
              call.value = (IF call.b.s = call.a.s THEN 1000 ELSE -1000)
        /\ LtPow10(Deviation(call.a.s), Len(call.a.s), 10 - 2 * call.a.e) =>
              call.value = 0

\* The denominator sqrt(sum(a_centered^2) * sum(b_centered^2)) of the first
\* n elements of x and y, in units of 10^-e, is below 1e-10.
DenominatorBelowFloor(x, y, n, e) ==
    LtPow10(Deviation(SubSeq(x, 1, n)) * Deviation(SubSeq(y, 1, n)), n * n, 20 - 4 * e)

\* C12: calculate_correlation returns for all inputs; only the first
\* min(len(a), len(b)) elements of each count; the result is 0 when that
\* length is 0 and whenever the denominator is below 1e-10, in particular
\* when either truncated sequence is constant.
C12_TruncateAndFloor ==
    Returned("calculate_correlation") =>
        LET n == Min2(Len(call.a.s), Len(call.b.s))
            x == SubSeq(call.a.s, 1, n)
            y == SubSeq(call.b.s, 1, n)
        IN  /\ call.value \in -1000..1000
            /\ n = 0 => call.value = 0
            /\ DenominatorBelowFloor(call.a.s, call.b.s, n, call.a.e) => call.value = 0
            /\ ~NonConstant(x) \/ ~NonConstant(y) => call.value = 0
            /\ x = y /\ DeviationAboveFloor(x, call.a.e) => call.value = 1000

C12_Witness ==
    /\ Returned("calculate_correlation")
    /\ Len(call.a.s) < Len(call.b.s)
    /\ NonConstant(call.a.s)
    /\ NonConstant(SubSeq(call.b.s, 1, Len(call.a.s)))
    /\ DenominatorBelowFloor(call.a.s, call.b.s, Len(call.a.s), call.a.e)
    /\ call.value = 0

\* C13: resample_if_needed returns the input buffer unchanged when the rates
\* are equal, and otherwise a buffer whose sample count is the integer
\* nearest to len(data) * sr_target / sr_orig.
C13_ResampledLengthRounded ==
    Returned("resample_if_needed") =>
        IF call.sr_orig = call.sr_target
        THEN call.value.array = call.data
        ELSE 2 * Abs(call.value.length * call.sr_orig - Len(call.data) * call.sr_target)
                <= call.sr_orig

\* What the code does: the sample count is the quotient truncated.
ResampledLengthTruncated ==
    Returned("resample_if_needed") =>
        /\ call.sr_orig = call.sr_target => call.value.array = call.data
        /\ call.value.length * call.sr_orig <= Len(call.data) * call.sr_target
        /\ (call.value.length + 1) * call.sr_orig > Len(call.data) * call.sr_target

\* max_offset_samples of the call in progress.
MaxOffsetSamples == (call.max_offset_ms * call.sample_rate) \div 1000

\* The target of the call is its reference behind k samples of silence.
TargetDelayedBy(k) == call.target = Silence(k) \o call.ref

\* C17: for a target that is the reference delayed by k samples,
\* 0 <= k <= max_offset_samples, find_alignment_offset returns offset = +k,
\* and for any inputs |offset| <= max_offset_samples.  Stated for references
\* that are one impulse followed by silence and delays that leave the
\* impulse inside the compared segment, where the peak is unambiguous.
C17_CrossCorrelationConvention ==
    Returned("find_alignment_offset") =>
        /\ Abs(call.value.offset) <= MaxOffsetSamples
        /\ \A k \in 0..MaxOffsetSamples :
               /\ TargetDelayedBy(k)
               /\ k < Len(call.ref)
               /\ call.ref[1] # 0
               /\ \A i \in 2..Len(call.ref) : call.ref[i] = 0
               => call.value.offset = k

\* What the code does: the offset stays inside the window, and an impulse
\* delayed by k samples is reported as offset -k.
CrossCorrelationNegatesDelay ==
    Returned("find_alignment_offset") =>
        /\ Abs(call.value.offset) <= MaxOffsetSamples
        /\ \A k \in 0..MaxOffsetSamples :
               /\ TargetDelayedBy(k)
               /\ k < Len(call.ref)
               /\ call.ref[1] # 0
               /\ \A i \in 2..Len(call.ref) : call.ref[i] = 0
               => call.value.offset = -k

\* C14: a configuration option of the comparison selects the transient or
\* the cross-correlation estimator, so for every pair of files some
\* configuration of compare_audio aligns by the cross-correlation offset.
C14_BothStrategiesSelectable ==
    AfterAlignment /\ args.align =>
        \E a \in Args :
            /\ a.align
            /\ AlignBlock(data1, data2, a.align, a.trim, sample_rate, a.threshold).offset
                 = find_alignment_offset(data1, data2, DefaultMaxOffsetMs,
                                         sample_rate).offset

\* Linear values the silence threshold option can be changed to, in the
\* sample unit.
OtherThresholdLevels == {1, 2}

\* C15: for fixed input buffers, changing only the silence threshold of the
\* comparison never changes the alignment offset or the alignment confidence.
C15_AlignmentIgnoresSilenceThreshold ==
    AfterAlignment /\ args.align =>
        \A t \in OtherThresholdLevels :
            LET other == AlignBlock(data1, data2, args.align, args.trim, sample_rate, t)
            IN  /\ other.offset = alignment.offset
                /\ other.align_corr = alignment.align_corr

\* The length the specification gives the aligned views: the minimum of the
\* two post-offset lengths, capped at the reference's length under trim.
AlignedLength ==
    LET offset == IF args.align
                  THEN FirstIndex(data2, args.threshold) - FirstIndex(data1, args.threshold)
                  ELSE 0
        post1 == Len(data1) - (IF offset < 0 THEN -offset ELSE 0)
        post2 == Len(data2) - (IF offset > 0 THEN offset ELSE 0)
    IN  IF args.align /\ args.trim
        THEN Min2(Min2(post1, post2), Len(data1))
        ELSE Min2(post1, post2)

\* C16: in every path of compare_audio the two aligned views have equal
\* length, the minimum of the two post-offset lengths (capped at the
\* reference's original length when trim is on), never more than the length
\* of either original buffer.
C16_AlignedViewsEqualLength ==
    /\ AfterAlignment =>
          /\ Len(alignment.data1_aligned) = AlignedLength
          /\ Len(alignment.data2_aligned) = AlignedLength
          /\ AlignedLength <= Len(data1)
          /\ AlignedLength <= Len(data2)
    /\ AfterAnalysis =>
          /\ Len(views.v1.s) = AlignedLength
          /\ Len(views.v2.s) = AlignedLength

C16_Witness ==
    /\ pc = "correlate"
    /\ args.align
    /\ args.trim
    /\ args.normalize
    /\ alignment.offset > 0
    /\ Len(data2) - alignment.offset > Len(data1)
    /\ Len(views.v1.s) = Len(data1)
    /\ Len(views.v2.s) = Len(data1)

\* The largest magnitude among the samples of the first second of x (all of
\* x when it is not longer than one second); x is not empty.
PeakOfFirstSecond(x, rate) ==
    LET head == 1..Min2(Len(x), rate)
    IN  CHOOSE p \in {Abs(x[i]) : i \in head} : \A i \in head : Abs(x[i]) <= p

\* C18: the transient-alignment confidence is
\* min(ref_peak/threshold, target_peak/threshold, 10)/10 with each peak taken
\* over the first second of the buffer; for non-empty buffers it lies in
\* [0,1], is 0 exactly when one of the peaks is 0 and is 1.0 exactly when both
\* peaks are at least 10 times the threshold.  (Confidence in thousandths.)
C18_ConfidenceFormula ==
    Returned("find_alignment_offset_by_transient") =>
        LET ref_peak == PeakOfFirstSecond(call.ref, call.sample_rate)
            target_peak == PeakOfFirstSecond(call.target, call.sample_rate)
            ten == 10 * call.threshold_linear
            confidence == call.value.confidence
        IN  /\ confidence = (1000 * Min2(Min2(ref_peak, target_peak), ten)) \div ten
            /\ confidence \in 0..1000
            /\ confidence = 0 <=> (ref_peak = 0 \/ target_peak = 0)
            /\ confidence = 1000 <=> (ref_peak >= ten /\ target_peak >= ten)

C18_Witness ==
    /\ Returned("find_alignment_offset_by_transient")
    /\ Len(call.ref) > call.sample_rate
    /\ Abs(call.ref[Len(call.ref)]) >= 10 * call.threshold_linear
    /\ PeakOfFirstSecond(call.ref, call.sample_rate) < 10 * call.threshold_linear
    /\ PeakOfFirstSecond(call.target, call.sample_rate) >= 10 * call.threshold_linear
    /\ call.value.confidence \in 1..999

\* The positions (1-based) of the nonzero samples of the buffer of the call.
Impulses == {j \in 1..Len(call.data) : call.data[j] # 0}

\* The impulses are isolated: at least 50 ms apart, clear of both ends, and
\* none below a tenth of the largest in energy.  One hop is one sample.
IsolatedImpulses ==
    /\ call.sample_rate = 100
    /\ \A i, j \in Impulses : i = j \/ Abs(i - j) >= 5
    /\ \A j \in Impulses : j >= 4 /\ j <= Len(call.data) - 1
    /\ \A i, j \in Impulses :
          10 * call.data[i] * call.data[i] >= call.data[j] * call.data[j]

\* The onset time in ms of an isolated impulse at position j: its energy
\* first rises at hop j - 3.
OnsetMs(j) == ((j - 3) * 1000) \div call.sample_rate

\* C19: transient_times_ms holds at most 20 entries, the earliest detected
\* transients in ascending order; its length is min(num_transients, 20) with
\* num_transients uncapped; a buffer shorter than one 25 ms frame gives
\* first_transient_ms = 0, num_transients = 0 and an empty list.
C19_TransientTimesCapped ==
    Returned("detect_transients") =>
        LET timing == call.value
            times == timing.transient_times_ms
        IN  /\ Len(times) <= 20
            /\ Len(times) = Min2(timing.num_transients, 20)
            /\ \A i \in 1..(Len(times) - 1) : times[i] < times[i + 1]
            /\ IsolatedImpulses =>
                  /\ timing.num_transients = Cardinality(Impulses)
                  /\ \A i \in 1..Len(times) :
                        \E j \in Impulses :
                            /\ times[i] = OnsetMs(j)
                            /\ Cardinality({k \in Impulses : k < j}) = i - 1
            /\ Len(call.data) < (25 * call.sample_rate) \div 1000 =>
                  timing = [first_transient_ms |-> 0, num_transients |-> 0,
                            transient_times_ms |-> <<>>]

C19_Witness ==
    /\ Returned("detect_transients")
    /\ IsolatedImpulses
    /\ call.value.num_transients > 20
    /\ Len(call.value.transient_times_ms) = 20
    /\ call.value.transient_times_ms[1] = OnsetMs(4)

====
